---- MODULE Spec2Model ----
(***************************************************************************)
(* Model of simulation/referral_model.py: the referral graph held in the   *)
(* agents of ReferralModel, the ancestor-chain traversal, the decay policy *)
(* and the chain reward calculator, and the event ledger.                  *)
(*                                                                         *)
(* Amounts are Python floats in the source.  Here an amount is an integer  *)
(* number of the smallest unit the model resolves, and a float quotient    *)
(* a / b is the nearest such integer (FDiv), so that a quotient is neither *)
(* the identity nor a floor.  Agent ids are 1, 2, ... in creation order    *)
(* (Mesa assigns unique_id that way), None is NoReferrer.                  *)
(***************************************************************************)
EXTENDS Integers, Sequences, FiniteSets, TLC

VARIABLES
    agents,                     \* model.agents: sequence of UserAgent records, index = unique_id
    current_step,               \* model.current_step
    reward_events,              \* model.reward_events (the ledger)
    total_rewards_distributed,  \* model.total_rewards_distributed
    reward_distribution_count,  \* model.reward_distribution_count
    reward_decay_type,          \* model.reward_decay_type
    reward_decay_factor,        \* model.reward_decay_factor
    min_reward,                 \* model.min_reward
    original_user_percentage,   \* model.original_user_percentage
    phase,                      \* position inside ReferralModel.step: "idle", "agents", "events"
    cursor,                     \* index of the agent the running loop of step is at
    step_agents,                \* length of list(self.agents) taken when step started its loop
    chain,                      \* chain of the last _distribute_chain_rewards call
    recipients,                 \* recipients returned by its _calculate_chain_rewards
    amounts                     \* amounts returned by its _calculate_chain_rewards

vars == <<agents, current_step, reward_events, total_rewards_distributed,
          reward_distribution_count, reward_decay_type, reward_decay_factor,
          min_reward, original_user_percentage, phase, cursor, step_agents,
          chain, recipients, amounts>>

config == <<reward_decay_type, reward_decay_factor, min_reward, original_user_percentage>>
ledger == <<reward_events, total_rewards_distributed, reward_distribution_count>>
result == <<chain, recipients, amounts>>

----------------------------------------------------------------------------
(* Bounds of the model *)

MaxUsers == 3           \* model.max_users of the modelled runs
MaxSteps == 2           \* number of ReferralModel.step calls explored
MaxEvents == 2          \* number of reward events explored
MaxInitialUsers == 2    \* largest n_initial_users explored

(* Program constants *)

max_chain_depth == 50          \* the literal of `if len(chain) > 50`
max_referrals_per_step == 3    \* default of ReferralModel.__init__
BPS == 10000                   \* the basis-point denominator

NoReferrer == 0                \* None

DecayTypes == {"linear", "exponential", "fixed"}
DecayFactors == {3, 7000}
MinRewards == {0, 2}
UserPercentages == {0, 8000, 10000}
min_referral_delay == 0

GrossAmounts == {100}                \* the amount the simulation draws (lognormal: positive)
ApiAmounts == {-100, 0, 7, 100}      \* amounts a caller may put in a RewardEvent

----------------------------------------------------------------------------
(* Arithmetic *)

Max(a, b) == IF a >= b THEN a ELSE b
Min(a, b) == IF a <= b THEN a ELSE b

\* float division a / b (b > 0), to the nearest unit of the model's resolution
FDiv(a, b) == (2 * a + b) \div (2 * b)

Range(s) == {s[k] : k \in 1..Len(s)}

RECURSIVE SumSeq(_)
SumSeq(s) == IF s = <<>> THEN 0 ELSE s[1] + SumSeq(Tail(s))

----------------------------------------------------------------------------
(* RewardEvent and UserAgent *)

RewardEvent(user_id, total_amount, timestamp) ==
    [user_id |-> user_id, total_amount |-> total_amount,
     event_type |-> "purchase", timestamp |-> timestamp]

\* the loop `for agent in model.agents: if agent.unique_id == id`
HasAgent(ags, id) == id \in 1..Len(ags)

\* variant: the new agent stores its own id as referrer_id
NewAgentSelfReferred(ags, referrer_id) ==
    [referral_count |-> 0,
     total_rewards |-> 0,
     referral_level |-> IF referrer_id /= NoReferrer THEN 1 ELSE 0,
     referrer_id |-> IF referrer_id /= NoReferrer THEN Len(ags) + 1 ELSE NoReferrer,
     active |-> TRUE,
     join_time |-> current_step,
     last_reward_time |-> current_step]

\* UserAgent.__init__: the record of the agent created in model `ags`
NewAgent(ags, referrer_id) ==
    [referral_count |-> 0,
     total_rewards |-> 0,
     \* the new agent is already in model.agents when the lookup loop runs
     referral_level |-> IF referrer_id /= NoReferrer /\ HasAgent(ags, referrer_id)
                        THEN ags[referrer_id].referral_level + 1
                        ELSE IF referrer_id = Len(ags) + 1 THEN 1 ELSE 0,
     referrer_id |-> referrer_id,
     active |-> TRUE,
     join_time |-> current_step,
     last_reward_time |-> current_step]

RECURSIVE InitialAgents(_)
InitialAgents(n) ==
    IF n = 0 THEN <<>>
    ELSE Append(InitialAgents(n - 1),
                [referral_count |-> 0, total_rewards |-> 0, referral_level |-> 0,
                 referrer_id |-> NoReferrer, active |-> TRUE, join_time |-> 0,
                 last_reward_time |-> 0])

----------------------------------------------------------------------------
(* _get_referral_chain *)

\* the referrer found by the inner loop over self.agents; None when no agent has the id
ReferrerOf(ags, id) == IF HasAgent(ags, id) THEN ags[id].referrer_id ELSE NoReferrer

\* the depth limit checked after each append
DepthExceeded(ch) == Len(ch) > max_chain_depth

\* variant: the visited set is not consulted
ContinueWalkNoVisited(current_id, ch) == current_id /= NoReferrer

\* the loop condition; visited holds exactly the ids of chain
ContinueWalk(current_id, ch) == current_id /= NoReferrer /\ current_id \notin Range(ch)

RECURSIVE ChainWalk(_, _, _)
ChainWalk(ags, current_id, ch) ==
    IF ~ContinueWalk(current_id, ch) THEN ch
    ELSE LET ch2 == Append(ch, current_id)
         IN IF DepthExceeded(ch2) THEN ch2
            ELSE ChainWalk(ags, ReferrerOf(ags, current_id), ch2)

GetReferralChain(ags, user_id) == ChainWalk(ags, user_id, <<>>)

----------------------------------------------------------------------------
(* _calculate_level_reward *)

RECURSIVE ExponentialLoop(_, _)
ExponentialLoop(reward, k) ==
    IF k = 0 THEN reward
    ELSE LET r == FDiv(reward * reward_decay_factor, BPS)
         IN IF r < min_reward THEN min_reward ELSE ExponentialLoop(r, k - 1)

\* variant: the decay does not grow with the level
LinearRewardNoLevel(base_amount, level) ==
    LET decay_amount == FDiv(base_amount * reward_decay_factor, BPS)
    IN IF decay_amount >= base_amount THEN min_reward
       ELSE Max(base_amount - decay_amount, min_reward)

LinearReward(base_amount, level) ==
    LET decay_amount == FDiv(base_amount * reward_decay_factor * level, BPS)
    IN IF decay_amount >= base_amount THEN min_reward
       ELSE Max(base_amount - decay_amount, min_reward)

FixedReward == Max(reward_decay_factor, min_reward)

CalculateLevelReward(base_amount, level) ==
    CASE reward_decay_type = "linear" -> LinearReward(base_amount, level)
      [] reward_decay_type = "exponential" -> ExponentialLoop(base_amount, level)
      [] reward_decay_type = "fixed" -> FixedReward
      [] OTHER -> min_reward

----------------------------------------------------------------------------
(* _calculate_chain_rewards *)

OriginalUserReward(total_amount) == FDiv(total_amount * original_user_percentage, BPS)

\* variant: the loop index itself is passed as the level
LevelOfZeroBased(i) == i

\* the level passed to _calculate_level_reward in iteration i of the loop
LevelOf(i) == i + 1

\* `if level_reward < self.min_reward:` adjustment of the computed reward
EnsureMinimum(level_reward, remaining) ==
    IF level_reward < min_reward
    THEN (IF remaining >= min_reward THEN Min(remaining, min_reward) ELSE 0)
    ELSE level_reward

\* variant: the reward is not compared with what remains
CreditableNoCap(level_reward, remaining) == level_reward > 0

\* `if level_reward > 0 and level_reward <= remaining_to_distribute`
Creditable(level_reward, remaining) == level_reward > 0 /\ level_reward <= remaining

\* number of iterations of the loop: every chain entry after the original user
NumReferrers(ch) == Len(ch) - 1

RECURSIVE ChainLoop(_, _, _, _, _)
ChainLoop(ch, i, remaining, recs, amts) ==
    IF i >= NumReferrers(ch) \/ remaining < min_reward
    THEN [recipients |-> recs, amounts |-> amts, remaining |-> remaining]
    ELSE LET level_reward ==
                 EnsureMinimum(CalculateLevelReward(remaining, LevelOf(i)), remaining)
         IN IF Creditable(level_reward, remaining)
            THEN ChainLoop(ch, i + 1, remaining - level_reward,
                           Append(recs, ch[i + 2]), Append(amts, level_reward))
            ELSE [recipients |-> recs, amounts |-> amts, remaining |-> remaining]

\* variant: the original user's reward is not taken out of what the chain shares
CalculateChainRewardsUndivided(total_amount, ch) ==
    IF ch = <<>> THEN [recipients |-> <<>>, amounts |-> <<>>, remaining |-> 0]
    ELSE ChainLoop(ch, 0, total_amount, <<ch[1]>>, <<OriginalUserReward(total_amount)>>)

CalculateChainRewards(total_amount, ch) ==
    IF ch = <<>> THEN [recipients |-> <<>>, amounts |-> <<>>, remaining |-> 0]
    ELSE LET original_user_reward == OriginalUserReward(total_amount)
         IN ChainLoop(ch, 0, total_amount - original_user_reward,
                      <<ch[1]>>, <<original_user_reward>>)

----------------------------------------------------------------------------
(* _distribute_chain_rewards *)

\* the crediting loop credits an amount when it is positive and an agent has the id
Credited(ags, recipient_id, amount) == amount > 0 /\ HasAgent(ags, recipient_id)

\* variant: the id comparison is missing, so the first agent of the list is credited
CreditOfFirstAgent(ags, recs, amts, id) ==
    IF id = 1
    THEN SumSeq([k \in 1..Len(recs) |->
                    IF Credited(ags, recs[k], amts[k]) THEN amts[k] ELSE 0])
    ELSE 0

\* variant: the crediting loop stops after the first recipient
CreditOfFirstOnly(ags, recs, amts, id) ==
    IF recs /= <<>> /\ recs[1] = id /\ Credited(ags, recs[1], amts[1]) THEN amts[1] ELSE 0

\* what the crediting loop adds to agent `id`
CreditOf(ags, recs, amts, id) ==
    SumSeq([k \in 1..Len(recs) |->
               IF recs[k] = id /\ Credited(ags, recs[k], amts[k]) THEN amts[k] ELSE 0])

\* total_distributed accumulated by the crediting loop
TotalDistributed(ags, recs, amts) ==
    SumSeq([k \in 1..Len(recs) |->
               IF Credited(ags, recs[k], amts[k]) THEN amts[k] ELSE 0])

\* variant: the event is inserted at the head of the ledger
ApplyDistributionPrepend(event, recs, amts) ==
    /\ agents' = [id \in 1..Len(agents) |->
                    IF CreditOf(agents, recs, amts, id) > 0
                    THEN [agents[id] EXCEPT
                            !.total_rewards = @ + CreditOf(agents, recs, amts, id),
                            !.last_reward_time = current_step]
                    ELSE agents[id]]
    /\ reward_events' = <<event>> \o reward_events
    /\ total_rewards_distributed' =
           total_rewards_distributed + TotalDistributed(agents, recs, amts)
    /\ reward_distribution_count' = reward_distribution_count + 1

\* variant: the gross amount of the event is added to the running total
ApplyDistributionGross(event, recs, amts) ==
    /\ agents' = [id \in 1..Len(agents) |->
                    IF CreditOf(agents, recs, amts, id) > 0
                    THEN [agents[id] EXCEPT
                            !.total_rewards = @ + CreditOf(agents, recs, amts, id),
                            !.last_reward_time = current_step]
                    ELSE agents[id]]
    /\ reward_events' = Append(reward_events, event)
    /\ total_rewards_distributed' = total_rewards_distributed + event.total_amount
    /\ reward_distribution_count' = reward_distribution_count + 1

\* the crediting loop and the tracking of the event
ApplyDistribution(event, recs, amts) ==
    /\ agents' = [id \in 1..Len(agents) |->
                    IF CreditOf(agents, recs, amts, id) > 0
                    THEN [agents[id] EXCEPT
                            !.total_rewards = @ + CreditOf(agents, recs, amts, id),
                            !.last_reward_time = current_step]
                    ELSE agents[id]]
    /\ reward_events' = Append(reward_events, event)
    /\ total_rewards_distributed' =
           total_rewards_distributed + TotalDistributed(agents, recs, amts)
    /\ reward_distribution_count' = reward_distribution_count + 1

DistributeChainRewards(event) ==
    LET ch == GetReferralChain(agents, event.user_id)
        res == CalculateChainRewards(event.total_amount, ch)
    IN /\ chain' = ch
       /\ recipients' = res.recipients
       /\ amounts' = res.amounts
       /\ IF ch = <<>>
          THEN UNCHANGED <<agents, ledger>>
          ELSE ApplyDistribution(event, res.recipients, res.amounts)

----------------------------------------------------------------------------
(* ReferralModel.__init__ *)

Init ==
    /\ \E n \in 1..MaxInitialUsers : agents = InitialAgents(n)
    /\ current_step = 0
    /\ reward_events = <<>>
    /\ total_rewards_distributed = 0
    /\ reward_distribution_count = 0
    /\ reward_decay_type \in DecayTypes
    /\ reward_decay_factor \in DecayFactors
    /\ min_reward \in MinRewards
    /\ original_user_percentage \in UserPercentages
    /\ phase = "idle"
    /\ cursor = 0
    /\ step_agents = 0
    /\ chain = <<>>
    /\ recipients = <<>>
    /\ amounts = <<>>

----------------------------------------------------------------------------
(* ReferralModel.step, one agent or one active user at a time *)

\* step: advance the clock and start the loop over list(self.agents)
ModelStep ==
    /\ phase = "idle"
    /\ current_step < MaxSteps
    /\ current_step' = current_step + 1
    /\ phase' = "agents"
    /\ cursor' = 1
    /\ step_agents' = Len(agents)
    /\ UNCHANGED <<agents, ledger, config, result>>

\* the loop over list(self.agents) moves on; after the last agent
\* _generate_reward_events starts its loop over the users
NextAgent ==
    IF cursor < step_agents
    THEN /\ cursor' = cursor + 1
         /\ phase' = phase
    ELSE /\ cursor' = 1
         /\ phase' = "events"

\* UserAgent.step, the churn branch: the agent becomes inactive and returns
AgentChurn ==
    /\ phase = "agents"
    /\ agents' = [agents EXCEPT ![cursor].active = FALSE]
    /\ NextAgent
    /\ UNCHANGED <<current_step, step_agents, ledger, config, result>>

\* variant: the referral branch does not test self.active
CanReferInactive(a) == current_step - agents[a].join_time > min_referral_delay

\* the condition of the referral branch of UserAgent.step for agent a
CanRefer(a) ==
    /\ agents[a].active
    /\ current_step - agents[a].join_time > min_referral_delay

RECURSIVE Refer(_, _, _)
\* the `for _ in range(num_referrals)` loop of agent a on the agents `ags`
Refer(ags, a, num_referrals) ==
    IF num_referrals = 0 THEN ags
    ELSE IF Len(ags) < MaxUsers
         THEN Refer([Append(ags, NewAgent(ags, a)) EXCEPT ![a].referral_count = @ + 1],
                    a, num_referrals - 1)
         ELSE Refer(ags, a, num_referrals - 1)

\* UserAgent.step, the referral branch with num_referrals drawn
AgentRefer(num_referrals) ==
    /\ phase = "agents"
    /\ CanRefer(cursor)
    /\ agents' = Refer(agents, cursor, num_referrals)
    /\ NextAgent
    /\ UNCHANGED <<current_step, step_agents, ledger, config, result>>

\* UserAgent.step when neither branch is taken
AgentIdle ==
    /\ phase = "agents"
    /\ NextAgent
    /\ UNCHANGED <<agents, current_step, step_agents, ledger, config, result>>

\* the loop of _generate_reward_events moves on; after the last user step returns
NextUser ==
    IF cursor < Len(agents)
    THEN /\ cursor' = cursor + 1
         /\ phase' = phase
    ELSE /\ cursor' = 0
         /\ phase' = "idle"

\* _generate_reward_events: the user at the cursor is active and has an event
GenerateRewardEvent(reward_amount) ==
    /\ phase = "events"
    /\ agents[cursor].active
    /\ Len(reward_events) < MaxEvents
    /\ DistributeChainRewards(RewardEvent(cursor, reward_amount, current_step))
    /\ NextUser
    /\ UNCHANGED <<current_step, step_agents, config>>

\* _generate_reward_events: the user at the cursor is inactive or has no event
NoRewardEvent ==
    /\ phase = "events"
    /\ NextUser
    /\ UNCHANGED <<agents, current_step, step_agents, ledger, config, result>>

Next ==
    \/ ModelStep
    \/ AgentChurn
    \/ \E k \in 0..max_referrals_per_step : AgentRefer(k)
    \/ AgentIdle
    \/ \E amt \in GrossAmounts : GenerateRewardEvent(amt)
    \/ NoRewardEvent

Spec == Init /\ [][Next]_vars

----------------------------------------------------------------------------
(* The operations called directly, with any argument a caller can pass *)

ApiMaxUsers == 2                  \* users created by direct calls
UserIds == 0..(ApiMaxUsers + 1)   \* None, the ids in use and an id no agent has

\* UserAgent(model, referrer_id)
AddUser(referrer_id) ==
    /\ Len(agents) < ApiMaxUsers
    /\ agents' = Append(agents, NewAgent(agents, referrer_id))
    /\ UNCHANGED <<current_step, phase, cursor, step_agents, ledger, config, result>>

\* model._distribute_chain_rewards(RewardEvent(user_id, total_amount, ...))
ProcessEvent(user_id, total_amount) ==
    /\ Len(reward_events) < MaxEvents
    /\ DistributeChainRewards(RewardEvent(user_id, total_amount, current_step))
    /\ UNCHANGED <<current_step, phase, cursor, step_agents, config>>

NextApi ==
    \/ \E r \in UserIds : AddUser(r)
    \/ \E u \in UserIds \ {NoReferrer}, amt \in ApiAmounts : ProcessEvent(u, amt)

SpecApi == Init /\ [][NextApi]_vars

----------------------------------------------------------------------------
(* The traversal on a graph whose referrer ids were overwritten by hand *)

\* agent.referrer_id = r, for an agent and an id of the graph
Corrupt(u, r) ==
    /\ u \in 1..Len(agents)
    /\ r \in 1..Len(agents)
    /\ agents' = [agents EXCEPT ![u].referrer_id = r]
    /\ UNCHANGED <<current_step, phase, cursor, step_agents, ledger, config, result>>

\* model._get_referral_chain(user_id)
CallGetReferralChain(user_id) ==
    /\ chain' = GetReferralChain(agents, user_id)
    /\ UNCHANGED <<agents, current_step, phase, cursor, step_agents, ledger, config,
                   recipients, amounts>>

NextCorrupt ==
    \/ \E r \in UserIds : AddUser(r)
    \/ \E u \in UserIds, r \in UserIds : Corrupt(u, r)
    \/ \E u \in UserIds : CallGetReferralChain(u)

SpecCorrupt == Init /\ [][NextCorrupt]_vars

----------------------------------------------------------------------------
(* One line of referrals, each user referred by the user created before it *)

DeepUsers == max_chain_depth + 2
DeepAmounts == {1000}

InitDeep ==
    /\ Init
    /\ Len(agents) = 1
    /\ reward_decay_type = "fixed"
    /\ reward_decay_factor = 3
    /\ min_reward = 2
    /\ original_user_percentage = 8000

\* UserAgent(model, referrer_id) with the newest user as referrer
DeepRefer ==
    /\ Len(agents) < DeepUsers
    /\ agents' = Append(agents, NewAgent(agents, Len(agents)))
    /\ UNCHANGED <<current_step, phase, cursor, step_agents, ledger, config, result>>

\* model._distribute_chain_rewards for an event of a user of the line
DeepEvent(user_id, total_amount) ==
    /\ user_id \in 1..Len(agents)
    /\ reward_events = <<>>
    /\ DistributeChainRewards(RewardEvent(user_id, total_amount, current_step))
    /\ UNCHANGED <<current_step, phase, cursor, step_agents, config>>

NextDeep ==
    \/ DeepRefer
    \/ \E u \in 1..DeepUsers, amt \in DeepAmounts : DeepEvent(u, amt)

SpecDeep == InitDeep /\ [][NextDeep]_vars

----------------------------------------------------------------------------
(* The fixed geometric weighting of the specification (ratio 0.6, at most *)
(* max_recipients levels, the shortfall added to the nearest referrer)    *)

max_recipients == 10

GeoWeights == <<10000, 6000, 3600, 2160, 1296, 777, 466, 279, 167, 100>>
GeoCumulative == <<0, 10000, 16000, 19600, 21760, 23056, 23833, 24299, 24578, 24745, 24845>>

\* step 2: the share reserved for the triggering user
OriginalShare(gross_amount) == (gross_amount * original_user_percentage) \div BPS

\* step 3: the chain positions after the triggering user, capped
NumRecipients(ch) == Min(Len(ch) - 1, max_recipients)

\* step 4: amount[i] = floor(remaining * weight[i] / cumulative_sum[num_recipients])
GeoAmounts(remaining, n) ==
    [i \in 1..n |-> (remaining * GeoWeights[i]) \div GeoCumulative[n + 1]]

\* variant: the shortfall is dropped
NoShortfall(amts, remaining) == amts

\* step 4: the shortfall goes to amount[0]
AddShortfall(amts, remaining) ==
    IF amts = <<>> THEN amts
    ELSE [amts EXCEPT ![1] = @ + (remaining - SumSeq(amts))]

CalculateGeometricRewards(gross_amount, ch) ==
    LET original_share == OriginalShare(gross_amount)
        remaining == gross_amount - original_share
        n == NumRecipients(ch)
    IN [recipients |-> SubSeq(ch, 1, n + 1),
        amounts |-> <<original_share>> \o AddShortfall(GeoAmounts(remaining, n), remaining)]

\* steps 1 to 6 for one event of a user of the graph with a gross amount >= 0
DistributeGeometric(event) ==
    LET ch == GetReferralChain(agents, event.user_id)
        res == CalculateGeometricRewards(event.total_amount, ch)
    IN /\ chain' = ch
       /\ recipients' = res.recipients
       /\ amounts' = res.amounts
       /\ ApplyDistribution(event, res.recipients, res.amounts)

GeoUsers == max_recipients + 2
GeoGrossAmounts == {0, 1, 7, 100, 999}

InitGeo ==
    /\ Init
    /\ Len(agents) = 1
    /\ reward_decay_type = "exponential"
    /\ reward_decay_factor = 7000
    /\ min_reward = 0

\* a user referred by the newest user
GeoRefer ==
    /\ Len(agents) < GeoUsers
    /\ agents' = Append(agents, NewAgent(agents, Len(agents)))
    /\ UNCHANGED <<current_step, phase, cursor, step_agents, ledger, config, result>>

GeoEvent(user_id, gross_amount) ==
    /\ user_id \in 1..Len(agents)
    /\ gross_amount >= 0
    /\ reward_events = <<>>
    /\ DistributeGeometric(RewardEvent(user_id, gross_amount, current_step))
    /\ UNCHANGED <<current_step, phase, cursor, step_agents, config>>

NextGeo ==
    \/ GeoRefer
    \/ \E u \in 1..GeoUsers, amt \in GeoGrossAmounts : GeoEvent(u, amt)

SpecGeometric == InitGeo /\ [][NextGeo]_vars

----------------------------------------------------------------------------
(* Properties *)

\* the event of the last distribution, whose result is in chain, recipients, amounts
LastEvent == reward_events[Len(reward_events)]
Processed == reward_events /= <<>> /\ chain /= <<>>

\* the sum of total_rewards over all users
SumRewards(ags) == SumSeq([id \in 1..Len(ags) |-> ags[id].total_rewards])

\* what was left for the chain when `k` amounts had been appended (k >= 1)
RemainingBefore(k) == LastEvent.total_amount - SumSeq(SubSeq(amounts, 1, k))

\* the loop over the chain ended before the last chain position
StoppedEarly == Processed /\ Len(recipients) < Len(chain)

\* C1: for an event with gross_amount >= 0 the amounts of the Distribution
\* Result (the triggering user's share and all chain amounts) sum to at most
\* the gross amount, whatever the decay type.
C1_SumWithinGross ==
    (Processed /\ LastEvent.total_amount >= 0)
        => SumSeq(amounts) <= LastEvent.total_amount

\* two chain recipients were credited and dust is left
C1_Witness ==
    /\ Processed
    /\ Len(recipients) >= 3
    /\ LastEvent.total_amount > 0
    /\ SumSeq(amounts) < LastEvent.total_amount

\* C2: in fixed-geometric mode, for a chain with at least one eligible
\* recipient, the amounts sum exactly to the gross amount.
C2_GeometricExactSum ==
    (Processed /\ Len(chain) >= 2) => SumSeq(amounts) = LastEvent.total_amount

\* ten recipients, and the nearest referrer holds a non-zero shortfall
C2_Witness ==
    /\ Processed
    /\ Len(recipients) = max_recipients + 1
    /\ amounts[2] > (RemainingBefore(1) * GeoWeights[1]) \div GeoCumulative[max_recipients + 1]

\* C3: when the chain has more than 10 ancestors, exactly 10 chain
\* recipients are credited.
C3_ExactlyTenRecipients ==
    (Processed /\ Len(chain) - 1 > max_recipients)
        => Len(recipients) - 1 = max_recipients

\* a chain that starts with u, follows the referrer ids and repeats no id
ChainOK(ags, u, ch) ==
    /\ ch /= <<>>
    /\ ch[1] = u
    /\ \A k \in 2..Len(ch) : ch[k] = ReferrerOf(ags, ch[k - 1])
    /\ \A j, k \in 1..Len(ch) : j /= k => ch[j] /= ch[k]

\* C4: on any graph, also one with a referral cycle, the chain of a user
\* starts with the user, each next id is the referrer of the one before,
\* and no id appears twice.
C4_ChainWellFormed ==
    \A u \in 1..Len(agents) : ChainOK(agents, u, GetReferralChain(agents, u))

\* the traversal was called for a user on a cycle and returned the whole cycle
C4_Witness ==
    \E u \in 1..Len(agents) :
        /\ chain = GetReferralChain(agents, u)
        /\ Len(chain) >= 2
        /\ ReferrerOf(agents, chain[Len(chain)]) = u

\* C5: the chain returned by the traversal has length <= max_chain_depth.
C5_ChainWithinMaxDepth == Len(chain) <= max_chain_depth

\* C6: an event with gross_amount < 0 is rejected: it is never in the
\* ledger and never counted.
C6_NegativeAmountRejected ==
    /\ \A k \in 1..Len(reward_events) :
           HasAgent(agents, reward_events[k].user_id) => reward_events[k].total_amount >= 0
    /\ reward_distribution_count
           = Cardinality({k \in 1..Len(reward_events) : reward_events[k].total_amount >= 0})

\* C7: an event whose triggering user is not in the graph is not recorded
\* in the ledger.
C7_UnknownUserNotRecorded ==
    \A k \in 1..Len(reward_events) :
        reward_events[k].total_amount >= 0 => HasAgent(agents, reward_events[k].user_id)

\* C8: no user holds a referrer_id that identifies no user.
C8_ReferrerExists ==
    \A a \in 1..Len(agents) :
        agents[a].referrer_id = NoReferrer \/ HasAgent(agents, agents[a].referrer_id)

\* C9 as stated: one event is appended, and the amount it records is the
\* total actually distributed.
C9_EventRecordsDistributed ==
    [][reward_events' /= reward_events =>
          /\ Len(reward_events') = Len(reward_events) + 1
          /\ reward_events'[Len(reward_events')].total_amount
                 = total_rewards_distributed' - total_rewards_distributed]_vars

\* C9: processing one event appends exactly one event, which records the
\* gross amount; the total actually distributed (the sum of all credited
\* amounts, at most the gross amount) is what is added to total_distributed.
C9_LedgerRecordsGross ==
    [][reward_events' /= reward_events =>
          /\ Len(reward_events') = Len(reward_events) + 1
          /\ SubSeq(reward_events', 1, Len(reward_events)) = reward_events
          /\ reward_distribution_count' = reward_distribution_count + 1
          /\ amounts'[1] = OriginalUserReward(reward_events'[Len(reward_events')].total_amount)
          /\ total_rewards_distributed' - total_rewards_distributed
                 = SumRewards(agents') - SumRewards(agents)
          /\ total_rewards_distributed' - total_rewards_distributed = SumSeq(amounts')
          /\ total_rewards_distributed' - total_rewards_distributed
                 <= reward_events'[Len(reward_events')].total_amount]_vars

\* one event was processed and less than its gross amount was distributed
C9_Witness ==
    /\ Processed
    /\ Len(reward_events) = 1
    /\ Len(recipients) >= 2
    /\ total_rewards_distributed > 0
    /\ total_rewards_distributed < LastEvent.total_amount

\* C10 as stated: with a balance left, the distribution stops before the end
\* of the chain only when the remaining balance is below min_reward.
C10_StopsOnlyBelowMinimum ==
    (StoppedEarly /\ RemainingBefore(Len(amounts)) > 0)
        => RemainingBefore(Len(amounts)) < min_reward

\* C10: the distribution stops when the remaining balance is below
\* min_reward, or when the level reward exceeds the remaining balance or is
\* not positive; otherwise the next chain recipient is credited with the
\* level reward of the current remaining balance, which is subtracted.
C10_StopRule ==
    Processed =>
        /\ \A k \in 1..(Len(amounts) - 1) :
              /\ RemainingBefore(k) >= min_reward
              /\ amounts[k + 1] = CalculateLevelReward(RemainingBefore(k), k)
              /\ amounts[k + 1] > 0
              /\ amounts[k + 1] <= RemainingBefore(k)
              /\ recipients[k + 1] = chain[k + 1]
        /\ StoppedEarly =>
               \/ RemainingBefore(Len(amounts)) < min_reward
               \/ CalculateLevelReward(RemainingBefore(Len(amounts)), Len(amounts))
                      > RemainingBefore(Len(amounts))
               \/ CalculateLevelReward(RemainingBefore(Len(amounts)), Len(amounts)) <= 0

\* the loop stopped with a remaining balance of at least min_reward
C10_Witness ==
    /\ StoppedEarly
    /\ min_reward > 0
    /\ RemainingBefore(Len(amounts)) >= min_reward

\* the LINEAR formula of the decay policy for a level number n, written out
LinearFormula(remaining, n) ==
    IF (2 * remaining * reward_decay_factor * n + BPS) \div (2 * BPS) >= remaining
    THEN min_reward
    ELSE Max(remaining - (2 * remaining * reward_decay_factor * n + BPS) \div (2 * BPS),
             min_reward)

\* C11 as stated: under LINEAR decay the immediate referrer (0-based level
\* index 0) is computed with zero decay.
C11_ImmediateReferrerZeroDecay ==
    (Processed /\ reward_decay_type = "linear" /\ Len(amounts) >= 2)
        => amounts[2] = LinearFormula(RemainingBefore(1), 0)

\* C11: under LINEAR decay the chain recipient at 0-based level index L is
\* computed with decay = remaining * factor_bps * (L + 1) / 10000: it gets
\* min_reward when decay >= remaining and max(remaining - decay, min_reward)
\* otherwise; the immediate referrer is computed with level 1.
C11_LinearLevelFromOne ==
    (Processed /\ reward_decay_type = "linear")
        => \A k \in 1..(Len(amounts) - 1) :
               amounts[k + 1] = LinearFormula(RemainingBefore(k), k)

\* LINEAR decay credited two referrers, the first with a non-zero decay
C11_Witness ==
    /\ Processed
    /\ reward_decay_type = "linear"
    /\ Len(amounts) >= 3
    /\ amounts[2] < RemainingBefore(1)
    /\ amounts[2] > min_reward

RECURSIVE ExponentialFloored(_, _)
\* the factor applied n times with each quotient floored, clamped to
\* min_reward as soon as a value drops below it
ExponentialFloored(reward, n) ==
    IF n = 0 THEN reward
    ELSE IF (reward * reward_decay_factor) \div BPS < min_reward THEN min_reward
         ELSE ExponentialFloored((reward * reward_decay_factor) \div BPS, n - 1)

\* C12: under EXPONENTIAL decay the reward of 0-based level L is the amount
\* with the factor applied L + 1 times, each quotient floored, and exactly
\* min_reward once a value drops below min_reward.
C12_ExponentialFloored ==
    (Processed /\ reward_decay_type = "exponential")
        => \A k \in 1..(Len(amounts) - 1) :
               amounts[k + 1] = ExponentialFloored(RemainingBefore(k), k)

\* C13: an event of a root user credits the triggering user alone, with
\* original_share = floor(gross_amount * original_user_share_bps / 10000),
\* and the amounts sum to that share.
C13_RootUserFlooredShare ==
    (/\ Processed
     /\ LastEvent.total_amount >= 0
     /\ HasAgent(agents, LastEvent.user_id)
     /\ agents[LastEvent.user_id].referrer_id = NoReferrer)
        => /\ recipients = <<LastEvent.user_id>>
           /\ amounts = <<(LastEvent.total_amount * original_user_percentage) \div BPS>>
           /\ SumSeq(amounts) = (LastEvent.total_amount * original_user_percentage) \div BPS

RECURSIVE AncestorAt(_, _, _)
\* the id reached from `id` by following referrer ids n times, or the null
\* referrer when the line ends earlier; a user on a cycle never reaches null
AncestorAt(ags, id, n) ==
    IF n = 0 \/ id = NoReferrer THEN id ELSE AncestorAt(ags, ReferrerOf(ags, id), n - 1)

C15_LedgerAppendOnly ==
    /\ [](reward_distribution_count = Len(reward_events))
    /\ [][/\ Len(reward_events') >= Len(reward_events)
          /\ SubSeq(reward_events', 1, Len(reward_events)) = reward_events
          /\ total_rewards_distributed' >= total_rewards_distributed]_vars

\* two events of different users are in the ledger, in processing order
C15_Witness ==
    /\ Len(reward_events) = 2
    /\ reward_events[1].user_id /= reward_events[2].user_id
    /\ reward_events[1].timestamp <= reward_events[2].timestamp
    /\ total_rewards_distributed > 0

C17_ValueConserved ==
    /\ [](SumRewards(agents) = total_rewards_distributed)
    /\ [][\A id \in 1..Len(agents) :
              agents'[id].total_rewards /= agents[id].total_rewards
                  => /\ reward_events' /= reward_events
                     /\ \E k \in 1..Len(recipients') : recipients'[k] = id]_vars

\* two events were processed, one user was credited and another never was
C17_Witness ==
    /\ Len(reward_events) = 2
    /\ total_rewards_distributed > 0
    /\ \E a, b \in 1..Len(agents) :
           /\ agents[a].total_rewards > 0
           /\ agents[a].total_rewards < total_rewards_distributed
           /\ agents[b].total_rewards = 0

\* C18: every credited chain recipient receives at least min_reward and at
\* most the balance remaining when its reward is computed, and the credited
\* chain recipients are the chain positions 1, 2, ... in ancestor order
\* with none skipped.
C18_PrefixWithinBounds ==
    Processed =>
        /\ Len(recipients) <= Len(chain)
        /\ recipients = SubSeq(chain, 1, Len(recipients))
        /\ \A k \in 2..Len(recipients) :
              /\ amounts[k] >= min_reward
              /\ amounts[k] <= RemainingBefore(k - 1)
              /\ agents[recipients[k]].total_rewards >= amounts[k]

\* two ancestors were credited under a positive min_reward, the nearer first
C18_Witness ==
    /\ Processed
    /\ min_reward > 0
    /\ Len(chain) = 3
    /\ Len(recipients) = 3
    /\ amounts[2] > 0
    /\ amounts[3] > 0

\* C19: a user whose active flag is false stays inactive for ever, creates
\* no referred user and triggers no reward event from then on, and still
\* stays in the graph and is credited as an ancestor in other users' chains.
C19_DeactivationSilences ==
    [][\A a \in 1..Len(agents) :
          ~agents[a].active =>
              /\ a <= Len(agents')
              /\ ~agents'[a].active
              /\ agents'[a].referrer_id = agents[a].referrer_id
              /\ agents'[a].referral_count = agents[a].referral_count
              /\ \A b \in (Len(agents) + 1)..Len(agents') : agents'[b].referrer_id /= a
              /\ reward_events' /= reward_events =>
                     /\ reward_events'[Len(reward_events')].user_id /= a
                     /\ \A k \in 1..Len(recipients') :
                            (recipients'[k] = a /\ amounts'[k] > 0)
                                => agents'[a].total_rewards
                                       = agents[a].total_rewards + amounts'[k]]_vars

\* an inactive user was credited as an ancestor by an event of the current step
C19_Witness ==
    /\ Processed
    /\ LastEvent.timestamp = current_step
    /\ \E a \in 1..Len(agents) :
           /\ ~agents[a].active
           /\ LastEvent.user_id /= a
           /\ agents[a].referral_count > 0
           /\ agents[a].last_reward_time = current_step
           /\ \E k \in 2..Len(recipients) : recipients[k] = a /\ amounts[k] > 0

====
